---- MODULE Spec2Model ----
(***************************************************************************)
(* Model of text-classification-baseline:                                  *)
(*   src/text_clf/pr_roc_curve.py  - the model-and-data resolver and the   *)
(*                                   two curve functions (diagnostics)     *)
(*   src/baseline.py               - the training script                   *)
(* The filesystem is the only state shared between the two flows.          *)
(***************************************************************************)
EXTENDS Integers, Sequences, FiniteSets, TLC

\* ------------------------------------------------------------------ bounds
MaxClasses == 3   \* longest class list stored in a target_names.json
MaxYaml    == 2   \* number of distinct *.yaml names a directory may hold
MaxRows    == 2   \* rows of data_train.csv
MaxTestRows == 1  \* rows of data_test.csv

\* ------------------------------------------------------------ paths, names
W == <<"/", "w">>            \* a working directory
M == <<"/", "m">>            \* a model artifact directory
CwdSet == {W, M}

LabelOrder == <<"a", "b", "c", "d">>     \* class names, in sorted order
WordOrder  == <<"x", "y">>               \* tokens, in sorted order
YamlOrder  == <<"a", "b", "c">>          \* base names of *.yaml files

YamlBases == {YamlOrder[i] : i \in 1..MaxYaml}

NoPath == [dir |-> <<>>, base |-> "", ext |-> ""]

\* a file name as glob/os.path see it: "<base>.<ext>", relative, no directory
FileName(base, ext) == [dir |-> <<>>, base |-> base, ext |-> ext]

IsAbs(d) == Len(d) > 0 /\ d[1] = "/"

\* os.path.join(folder, rel): an absolute second argument discards the first
Join(folder, p) ==
  [p EXCEPT !.dir = IF IsAbs(p.dir) THEN p.dir ELSE folder \o p.dir]

\* what the OS does with a path: relative paths start at the working
\* directory, "." components are dropped
ResolveDir(wd, d) ==
  SelectSeq(IF IsAbs(d) THEN d ELSE wd \o d, LAMBDA c : c # ".")

Resolve(wd, p) == [p EXCEPT !.dir = ResolveDir(wd, p.dir)]

SavedModels(wd) == wd \o <<"saved_models">>

ArtifactDirs == {W, M, SavedModels(W), SavedModels(M)}

AllFiles ==
  {[dir |-> d, base |-> "target_names", ext |-> "json"] : d \in ArtifactDirs}
  \cup {[dir |-> d, base |-> "model", ext |-> "joblib"] : d \in ArtifactDirs}
  \cup {[dir |-> d, base |-> "log_reg_tf_idf", ext |-> "joblib"] : d \in ArtifactDirs}
  \cup {[dir |-> d, base |-> b, ext |-> "yaml"] : d \in ArtifactDirs, b \in YamlBases}

Absent == [exists |-> FALSE, data |-> <<>>]
Present(data) == [exists |-> TRUE, data |-> data]

\* ------------------------------------------------------------------- state
VARIABLES
  files,                 \* filesystem: absolute file path -> Absent | Present(data)
  dirs,                  \* kind of <cwd>/saved_models: "absent" | "dir" | "file"
  datafiles,             \* data/data_train.csv and data/data_test.csv under cwd
  cwd,                   \* working directory of the process
  pc,                    \* position in the running flow
  caller,                \* entry point of the running diagnostics call
  calls,                 \* calls performed so far in the running flow
  error,                 \* exception that ended the flow (NoError if none)
  result,                \* value returned by the entry point
  display,               \* display object built by plot_*
  path_to_model_folder, path_to_model, target_names,
  path_to_model_folder_yaml_list, path_to_config, config, test_split, model,
  y_test_probas_pred,
  train                  \* locals of the training script

vars == <<files, dirs, datafiles, cwd, pc, caller, calls, error, result,
          display, path_to_model_folder, path_to_model, target_names,
          path_to_model_folder_yaml_list, path_to_config, config, test_split,
          model, y_test_probas_pred, train>>


\* ------------------------------------------------------------------ values
NoError == [type |-> "none", msg |-> "", count |-> -1, at |-> ""]
Err(type, msg, count, at) == [type |-> type, msg |-> msg, count |-> count, at |-> at]

NoConfig == [source |-> NoPath]
NoSplit  == [X_test |-> [from |-> NoConfig], y_test |-> [from |-> NoConfig]]
NoModel  == [fitted |-> FALSE, X |-> <<>>, y |-> <<>>]
StoredModel == [fitted |-> TRUE, X |-> <<>>, y |-> <<>>]  \* a classifier saved earlier
NoProbas == [model |-> NoModel, X |-> NoSplit.X_test]
NoResult == [kind |-> "none", model |-> NoModel, split |-> NoSplit, probas |-> NoProbas]
NoDisplay == [kind |-> "none", from |-> NoResult]

Lookup(p) == IF p \in DOMAIN files THEN files[p] ELSE Absent

\* joblib.dump / joblib.load: a tagged byte stream holding the object
Serialize(clf) == <<"joblib", clf>>
IsJoblib(data) == Len(data) = 2 /\ data[1] = "joblib"
Deserialize(data) == data[2]

\* a *.yaml configuration document and its parsed form
YamlDoc(p) == <<"yaml", [source |-> p]>>
ParseYaml(data) == data[2]

ClassLists == {SubSeq(LabelOrder, 1, n) : n \in 0..MaxClasses}

FolderArgs == {<<".">>, M, <<"saved_models">>}

\* ------------------------------------------------------- diagnostics flow
\* mutant: the triple resolved by an earlier call is kept and returned again
Enter_Cached(entry, folder) ==
  /\ pc \in {"idle", "done"}
  /\ caller' = entry
  /\ path_to_model_folder' = folder
  /\ error' = [type |-> "none", msg |-> "", count |-> -1, at |-> ""]
  /\ result' = [kind |-> "none",
                model |-> [fitted |-> FALSE, X |-> <<>>, y |-> <<>>],
                split |-> [X_test |-> [from |-> [source |-> NoPath]],
                           y_test |-> [from |-> [source |-> NoPath]]],
                probas |-> [model |-> [fitted |-> FALSE, X |-> <<>>, y |-> <<>>],
                            X |-> [from |-> [source |-> NoPath]]]]
  /\ display' = [kind |-> "none", from |-> result']
  /\ IF model.fitted
       THEN /\ pc' = "r_return"
            /\ path_to_model' = Join(folder, FileName("model", "joblib"))
            /\ UNCHANGED <<calls, target_names, path_to_model_folder_yaml_list,
                           path_to_config, config, test_split, model,
                           y_test_probas_pred>>
       ELSE /\ pc' = "r_model_path"
            /\ calls' = <<>>
            /\ path_to_model' = NoPath
            /\ target_names' = <<>>
            /\ path_to_model_folder_yaml_list' = <<>>
            /\ path_to_config' = NoPath
            /\ config' = [source |-> NoPath]
            /\ test_split' = [X_test |-> [from |-> [source |-> NoPath]],
                              y_test |-> [from |-> [source |-> NoPath]]]
            /\ model' = model
            /\ y_test_probas_pred' = y_test_probas_pred
  /\ UNCHANGED <<files, dirs, datafiles, cwd, train>>

\* entry of a call: fresh locals, nothing carried over from earlier calls
\* (values returned by earlier calls are dropped)
Enter(entry, folder) ==
  /\ pc \in {"idle", "done"}
  /\ caller' = entry
  /\ path_to_model_folder' = folder
  /\ pc' = "r_model_path"
  /\ calls' = <<>>
  /\ error' = NoError
  /\ result' = NoResult
  /\ path_to_model' = NoPath
  /\ target_names' = <<>>
  /\ path_to_model_folder_yaml_list' = <<>>
  /\ path_to_config' = NoPath
  /\ config' = NoConfig
  /\ test_split' = NoSplit
  /\ model' = NoModel
  /\ y_test_probas_pred' = NoProbas
  /\ display' = NoDisplay
  /\ UNCHANGED <<files, dirs, datafiles, cwd, train>>

Call_get_model_and_data == \E f \in FolderArgs : Enter("_get_model_and_data", f)
Call_get_precision_recall_curve == \E f \in FolderArgs : Enter("get_precision_recall_curve", f)
Call_get_roc_curve == \E f \in FolderArgs : Enter("get_roc_curve", f)

\* mutant: the curve functions swallow the resolver's exception and carry on
Raise_Swallowed(e) ==
  /\ error' = e
  /\ pc' = IF caller \in {"get_precision_recall_curve", "get_roc_curve"}
             THEN "c_proba" ELSE "done"

\* an exception leaves _get_model_and_data and its caller: nothing catches it
Raise(e) ==
  /\ error' = e
  /\ pc' = "done"

\* mutant: checks that model.joblib exists as soon as its path is computed
ModelPath_CheckExists ==
  /\ pc = "r_model_path"
  /\ path_to_model' = Join(path_to_model_folder, FileName("model", "joblib"))
  /\ IF Lookup(Resolve(cwd, path_to_model')).exists
       THEN pc' = "r_open" /\ error' = error
       ELSE /\ error' = [type |-> "FileNotFoundError", msg |-> "model", count |-> -1, at |-> "model_path"]
            /\ pc' = "done"
  /\ UNCHANGED <<files, dirs, datafiles, cwd, caller, calls, result,
                 display, path_to_model_folder, target_names,
                 path_to_model_folder_yaml_list, path_to_config, config,
                 test_split, model, y_test_probas_pred, train>>

\* line 38
ModelPath ==
  /\ pc = "r_model_path"
  /\ path_to_model' = Join(path_to_model_folder, FileName("model", "joblib"))
  /\ pc' = "r_open"
  /\ UNCHANGED <<files, dirs, datafiles, cwd, caller, calls, error, result,
                 display, path_to_model_folder, target_names,
                 path_to_model_folder_yaml_list, path_to_config, config,
                 test_split, model, y_test_probas_pred, train>>

\* mutant: reads the class list but goes on without checking its length
ReadTargetNames_SkipCheck ==
  /\ pc = "r_open"
  /\ calls' = Append(calls, "open")
  /\ LET p == Resolve(cwd, Join(path_to_model_folder, FileName("target_names", "json")))
     IN IF Lookup(p).exists
          THEN /\ target_names' = Lookup(p).data
               /\ pc' = "r_glob"
               /\ error' = error
          ELSE /\ error' = [type |-> "FileNotFoundError", msg |-> "open", count |-> -1, at |-> "open"]
               /\ pc' = "done"
               /\ target_names' = target_names
  /\ UNCHANGED <<files, dirs, datafiles, cwd, caller, result,
                 display, path_to_model_folder, path_to_model,
                 path_to_model_folder_yaml_list, path_to_config, config,
                 test_split, model, y_test_probas_pred, train>>

\* lines 41-43
ReadTargetNames ==
  /\ pc = "r_open"
  /\ calls' = Append(calls, "open")
  /\ LET p == Resolve(cwd, Join(path_to_model_folder, FileName("target_names", "json")))
     IN IF Lookup(p).exists
          THEN /\ target_names' = Lookup(p).data
               /\ pc' = "r_len"
               /\ error' = error
          ELSE /\ Raise(Err("FileNotFoundError", "open", -1, "open"))
               /\ target_names' = target_names
  /\ UNCHANGED <<files, dirs, datafiles, cwd, caller, result,
                 display, path_to_model_folder, path_to_model,
                 path_to_model_folder_yaml_list, path_to_config, config,
                 test_split, model, y_test_probas_pred, train>>

\* mutant: accepts any class list with at least two names
IsBinary_AtLeastTwo(names) == Len(names) >= 2

IsBinary(names) == Len(names) = 2

\* lines 44-47
CheckClassCount ==
  /\ pc = "r_len"
  /\ calls' = Append(calls, "len_check")
  /\ IF IsBinary(target_names)
       THEN pc' = "r_glob" /\ error' = error
       ELSE Raise(Err("Exception", "not_binary", Len(target_names), "len_check"))
  /\ UNCHANGED <<files, dirs, datafiles, cwd, caller, result,
                 display, path_to_model_folder, path_to_model, target_names,
                 path_to_model_folder_yaml_list, path_to_config, config,
                 test_split, model, y_test_probas_pred, train>>

RECURSIVE SetToSeq(_)
SetToSeq(S) ==
  IF S = {} THEN <<>>
  ELSE LET x == CHOOSE y \in S : TRUE IN <<x>> \o SetToSeq(S \ {x})

\* glob.glob(pattern "*.<ext>"): names of the files of the working directory
\* with that extension, as paths relative to the working directory
Glob(wd, ext) ==
  SetToSeq({FileName(p.base, p.ext) :
              p \in {q \in DOMAIN files : q.dir = wd /\ q.ext = ext /\ files[q].exists}})

\* line 50
GlobYaml ==
  /\ pc = "r_glob"
  /\ calls' = Append(calls, "glob")
  /\ path_to_model_folder_yaml_list' = Glob(cwd, "yaml")
  /\ pc' = "r_count"
  /\ UNCHANGED <<files, dirs, datafiles, cwd, caller, error, result,
                 display, path_to_model_folder, path_to_model, target_names,
                 path_to_config, config,
                 test_split, model, y_test_probas_pred, train>>

\* mutant: with several matches, silently takes the first
ConfigCountError_TakeFirst(n) ==
  IF n = 0 THEN [type |-> "FileNotFoundError", msg |-> "no_config", count |-> -1, at |-> "glob"]
  ELSE [type |-> "none", msg |-> "", count |-> -1, at |-> ""]

\* lines 51-56: the error the length of the match list selects, if any
ConfigCountError(n) ==
  IF n = 0 THEN Err("FileNotFoundError", "no_config", -1, "glob")
  ELSE IF n > 1 THEN Err("FileNotFoundError", "many_configs", -1, "glob")
  ELSE NoError

\* lines 51-56
CheckConfigCount ==
  /\ pc = "r_count"
  /\ LET e == ConfigCountError(Len(path_to_model_folder_yaml_list))
     IN IF e = NoError
          THEN pc' = "r_join" /\ error' = error
          ELSE Raise(e)
  /\ UNCHANGED <<files, dirs, datafiles, cwd, caller, calls, result,
                 display, path_to_model_folder, path_to_model, target_names,
                 path_to_model_folder_yaml_list, path_to_config, config,
                 test_split, model, y_test_probas_pred, train>>

\* lines 57-59
ConfigPath ==
  /\ pc = "r_join"
  /\ path_to_config' = Join(path_to_model_folder, path_to_model_folder_yaml_list[1])
  /\ pc' = "r_config"
  /\ UNCHANGED <<files, dirs, datafiles, cwd, caller, calls, error, result,
                 display, path_to_model_folder, path_to_model, target_names,
                 path_to_model_folder_yaml_list, config,
                 test_split, model, y_test_probas_pred, train>>

\* get_config(path): read and parse the configuration document at path
get_config(wd, p) ==
  IF Lookup(Resolve(wd, p)).exists
    THEN [ok |-> TRUE, value |-> ParseYaml(Lookup(Resolve(wd, p)).data)]
    ELSE [ok |-> FALSE, value |-> NoConfig]

\* line 62
GetConfig ==
  /\ pc = "r_config"
  /\ calls' = Append(calls, "get_config")
  /\ LET r == get_config(cwd, path_to_config)
     IN IF r.ok
          THEN /\ config' = r.value
               /\ pc' = "r_data"
               /\ error' = error
          ELSE /\ Raise(Err("FileNotFoundError", "config", -1, "get_config"))
               /\ config' = config
  /\ UNCHANGED <<files, dirs, datafiles, cwd, caller, result,
                 display, path_to_model_folder, path_to_model, target_names,
                 path_to_model_folder_yaml_list, path_to_config,
                 test_split, model, y_test_probas_pred, train>>

\* load_data(config): the splits the configuration describes
load_data(cfg) == [X_test |-> [from |-> cfg], y_test |-> [from |-> cfg]]

\* line 65; the data the configuration names may be unreadable
LoadData ==
  /\ pc = "r_data"
  /\ calls' = Append(calls, "load_data")
  /\ \E ok \in BOOLEAN :
       IF ok
         THEN /\ test_split' = load_data(config)
              /\ pc' = "r_load"
              /\ error' = error
         ELSE /\ Raise(Err("FileNotFoundError", "data", -1, "load_data"))
              /\ test_split' = test_split
  /\ UNCHANGED <<files, dirs, datafiles, cwd, caller, result,
                 display, path_to_model_folder, path_to_model, target_names,
                 path_to_model_folder_yaml_list, path_to_config, config,
                 model, y_test_probas_pred, train>>

\* line 68
JoblibLoad ==
  /\ pc = "r_load"
  /\ calls' = Append(calls, "joblib.load")
  /\ LET f == Lookup(Resolve(cwd, path_to_model))
     IN IF f.exists /\ IsJoblib(f.data)
          THEN /\ model' = Deserialize(f.data)
               /\ pc' = "r_return"
               /\ error' = error
          ELSE /\ Raise(Err("FileNotFoundError", "model", -1, "joblib.load"))
               /\ model' = model
  /\ UNCHANGED <<files, dirs, datafiles, cwd, caller, result,
                 display, path_to_model_folder, path_to_model, target_names,
                 path_to_model_folder_yaml_list, path_to_config, config,
                 test_split, y_test_probas_pred, train>>

\* line 70, and the assignment of the triple at lines 85 / 107
ReturnTriple ==
  /\ pc = "r_return"
  /\ IF caller = "_get_model_and_data"
       THEN /\ result' = [kind |-> "triple", model |-> model,
                          split |-> test_split, probas |-> NoProbas]
            /\ pc' = "done"
       ELSE /\ result' = result
            /\ pc' = "c_proba"
  /\ UNCHANGED <<files, dirs, datafiles, cwd, caller, calls, error,
                 display, path_to_model_folder, path_to_model, target_names,
                 path_to_model_folder_yaml_list, path_to_config, config,
                 test_split, model, y_test_probas_pred, train>>

\* lines 87 / 109
PredictProba ==
  /\ pc = "c_proba"
  /\ calls' = Append(calls, "predict_proba")
  /\ y_test_probas_pred' = [model |-> model, X |-> test_split.X_test]
  /\ pc' = "c_curve"
  /\ UNCHANGED <<files, dirs, datafiles, cwd, caller, error, result,
                 display, path_to_model_folder, path_to_model, target_names,
                 path_to_model_folder_yaml_list, path_to_config, config,
                 test_split, model, train>>

\* lines 88-92 / 110-112; the library call may reject its arguments
Curve ==
  /\ pc = "c_curve"
  /\ calls' = Append(calls, "curve")
  /\ \E ok \in BOOLEAN :
       IF ok
         THEN /\ result' = [kind |-> IF caller = "get_roc_curve" THEN "roc" ELSE "pr",
                            model |-> NoModel, split |-> test_split,
                            probas |-> y_test_probas_pred]
              /\ error' = error
         ELSE /\ result' = result
              /\ error' = Err("TypeError", "curve", -1, "curve")
  /\ pc' = "done"
  /\ UNCHANGED <<files, dirs, datafiles, cwd, caller,
                 display, path_to_model_folder, path_to_model, target_names,
                 path_to_model_folder_yaml_list, path_to_config, config,
                 test_split, model, y_test_probas_pred, train>>

\* lines 115-142: plot_precision_recall_curve / plot_roc_curve on returned coordinates
Plot ==
  /\ pc = "done"
  /\ result.kind \in {"pr", "roc"}
  /\ display' = [kind |-> IF result.kind = "pr" THEN "PrecisionRecallDisplay"
                                                ELSE "RocCurveDisplay",
                 from |-> result]
  /\ UNCHANGED <<files, dirs, datafiles, cwd, pc, caller, calls, error, result,
                 path_to_model_folder, path_to_model, target_names,
                 path_to_model_folder_yaml_list, path_to_config, config,
                 test_split, model, y_test_probas_pred, train>>

NextDiag ==
  \/ Call_get_model_and_data
  \/ Call_get_precision_recall_curve
  \/ Call_get_roc_curve
  \/ ModelPath
  \/ ReadTargetNames
  \/ CheckClassCount
  \/ GlobYaml
  \/ CheckConfigCount
  \/ ConfigPath
  \/ GetConfig
  \/ LoadData
  \/ JoblibLoad
  \/ ReturnTriple
  \/ PredictProba
  \/ Curve
  \/ Plot


\* ---------------------------------------------------------- training flow
Labels == {LabelOrder[i] : i \in 1..MaxClasses}
Words  == {WordOrder[i] : i \in 1..Len(WordOrder)}
RowSet == [Text : Words, Class : Labels]

RowsUpTo(n, rows) == UNION {[1..k -> rows] : k \in 1..n}

Column(df, name) == [i \in 1..Len(df) |-> df[i][name]]
Range(f) == {f[i] : i \in DOMAIN f}

\* LabelEncoder.fit: classes_ = the sorted distinct labels
le_fit(y) == SelectSeq(LabelOrder, LAMBDA l : l \in Range(y))
IndexOf(seq, x) == CHOOSE i \in 1..Len(seq) : seq[i] = x
\* LabelEncoder.transform: index of each label in classes_; unseen labels are an error
le_can_transform(classes, y) == Range(y) \subseteq Range(classes)
le_transform(classes, y) == [i \in 1..Len(y) |-> IndexOf(classes, y[i]) - 1]

\* TfidfVectorizer.fit: vocabulary and document frequencies of the fitted texts
vec_fit(X) ==
  LET vocab == SelectSeq(WordOrder, LAMBDA w : w \in Range(X))
  IN [vocabulary |-> vocab,
      df |-> [j \in 1..Len(vocab) |-> Cardinality({i \in 1..Len(X) : X[i] = vocab[j]})],
      n  |-> Len(X)]
\* TfidfVectorizer.transform: term counts over the fitted vocabulary, weighted
\* by the fitted document frequencies; tokens outside the vocabulary are dropped
vec_transform(v, X) ==
  <<[i \in 1..Len(X) |->
       [j \in 1..Len(v.vocabulary) |-> IF X[i] = v.vocabulary[j] THEN 1 ELSE 0]],
    v.df, v.n>>

\* LogisticRegression().fit(X, y): the classifier is a function of what it was fitted on
clf_fit(X, y) == [fitted |-> TRUE, X |-> X, y |-> y]

NoVec == [vocabulary |-> <<>>, df |-> <<>>, n |-> 0]
NoTrain ==
  [df_train |-> <<>>, df_test |-> <<>>,
   X_train |-> <<>>, X_test |-> <<>>, y_train |-> <<>>, y_test |-> <<>>,
   le |-> <<>>, vectorizer |-> NoVec,
   X_train_tfidf |-> <<>>, X_test_tfidf |-> <<>>,
   clf |-> NoModel, stdout |-> <<>>, path |-> NoPath]

trainframe == <<files, dirs, datafiles, cwd, caller, result, display,
                path_to_model_folder, path_to_model, target_names,
                path_to_model_folder_yaml_list, path_to_config, config,
                test_split, model, y_test_probas_pred>>

\* python baseline.py: a fresh process
RunBaseline ==
  /\ pc \in {"idle", "done"}
  /\ pc' = "t_read_train"
  /\ caller' = "baseline"
  /\ calls' = <<>>
  /\ error' = NoError
  /\ train' = NoTrain
  /\ result' = NoResult
  /\ display' = NoDisplay
  /\ path_to_model_folder' = <<>>
  /\ path_to_model' = NoPath
  /\ target_names' = <<>>
  /\ path_to_model_folder_yaml_list' = <<>>
  /\ path_to_config' = NoPath
  /\ config' = NoConfig
  /\ test_split' = NoSplit
  /\ model' = NoModel
  /\ y_test_probas_pred' = NoProbas
  /\ UNCHANGED <<files, dirs, datafiles, cwd>>

\* line 11
ReadTrainCsv ==
  /\ pc = "t_read_train"
  /\ calls' = Append(calls, "read_csv")
  /\ IF datafiles.train.exists
       THEN /\ train' = [train EXCEPT !.df_train = datafiles.train.data]
            /\ pc' = "t_read_test"
            /\ error' = error
       ELSE /\ Raise(Err("FileNotFoundError", "data_train", -1, "read_csv"))
            /\ train' = train
  /\ UNCHANGED trainframe

\* line 12
ReadTestCsv ==
  /\ pc = "t_read_test"
  /\ calls' = Append(calls, "read_csv")
  /\ IF datafiles.test.exists
       THEN /\ train' = [train EXCEPT !.df_test = datafiles.test.data]
            /\ pc' = "t_columns"
            /\ error' = error
       ELSE /\ Raise(Err("FileNotFoundError", "data_test", -1, "read_csv"))
            /\ train' = train
  /\ UNCHANGED trainframe

\* lines 14-17
SelectColumns ==
  /\ pc = "t_columns"
  /\ train' = [train EXCEPT !.X_train = Column(train.df_train, "Text"),
                            !.X_test  = Column(train.df_test, "Text"),
                            !.y_train = Column(train.df_train, "Class"),
                            !.y_test  = Column(train.df_test, "Class")]
  /\ pc' = "t_le_fit"
  /\ UNCHANGED <<calls, error>>
  /\ UNCHANGED trainframe

\* mutant: the encoder is fitted on the labels of both splits
EncoderFitInput_BothSplits(t) == t.y_train \o t.y_test

\* the labels the encoder is fitted on (line 21)
EncoderFitInput(t) == t.y_train

\* lines 20-21
LabelEncoderFit ==
  /\ pc = "t_le_fit"
  /\ calls' = Append(calls, "le.fit_transform")
  /\ LET classes == le_fit(EncoderFitInput(train))
     IN train' = [train EXCEPT !.le = classes,
                               !.y_train = le_transform(classes, train.y_train)]
  /\ pc' = "t_le_transform"
  /\ UNCHANGED error
  /\ UNCHANGED trainframe

\* line 22
LabelEncoderTransform ==
  /\ pc = "t_le_transform"
  /\ calls' = Append(calls, "le.transform")
  /\ IF le_can_transform(train.le, train.y_test)
       THEN /\ train' = [train EXCEPT !.y_test = le_transform(train.le, train.y_test)]
            /\ pc' = "t_vec_fit"
            /\ error' = error
       ELSE /\ Raise(Err("ValueError", "unseen_label", -1, "le.transform"))
            /\ train' = train
  /\ UNCHANGED trainframe

\* the texts the vectorizer is fitted on (line 26)
VectorizerFitInput(t) == t.X_train

\* lines 25-26
VectorizerFit ==
  /\ pc = "t_vec_fit"
  /\ calls' = Append(calls, "vectorizer.fit_transform")
  /\ LET v == vec_fit(VectorizerFitInput(train))
     IN train' = [train EXCEPT !.vectorizer = v,
                               !.X_train_tfidf = vec_transform(v, train.X_train)]
  /\ pc' = "t_vec_transform"
  /\ UNCHANGED error
  /\ UNCHANGED trainframe

\* line 27
VectorizerTransform ==
  /\ pc = "t_vec_transform"
  /\ calls' = Append(calls, "vectorizer.transform")
  /\ train' = [train EXCEPT !.X_test_tfidf = vec_transform(train.vectorizer, train.X_test)]
  /\ pc' = "t_clf_fit"
  /\ UNCHANGED error
  /\ UNCHANGED trainframe

\* lines 33-34
ClassifierFit ==
  /\ pc = "t_clf_fit"
  /\ calls' = Append(calls, "clf.fit")
  /\ train' = [train EXCEPT !.clf = clf_fit(train.X_train_tfidf, train.y_train)]
  /\ pc' = "t_report"
  /\ UNCHANGED error
  /\ UNCHANGED trainframe

\* lines 37-43
Report ==
  /\ pc = "t_report"
  /\ calls' = Append(calls, "classification_report")
  /\ train' = [train EXCEPT !.stdout =
                 <<[y_true |-> train.y_test,
                    y_pred |-> [clf |-> train.clf, X |-> train.X_test_tfidf]]>>]
  /\ pc' = "t_mkdir"
  /\ UNCHANGED error
  /\ UNCHANGED trainframe

\* mutant: the existence test is dropped, os.makedirs is always called
PathExists_Never(kind) == FALSE

\* os.path.exists: true for a directory and for a regular file
PathExists(kind) == kind # "absent"

\* os.makedirs(dir): creates the directory; raises FileExistsError when the
\* path is already taken
makedirs(d, dir) ==
  IF d[dir] = "absent"
    THEN [ok |-> TRUE, dirs |-> [d EXCEPT ![dir] = "dir"]]
    ELSE [ok |-> FALSE, dirs |-> d]

\* lines 46-50
CreateDirectory ==
  /\ pc = "t_mkdir"
  /\ calls' = Append(calls, "os.makedirs")
  /\ IF ~PathExists(dirs[SavedModels(cwd)])
       THEN LET r == makedirs(dirs, SavedModels(cwd))
            IN /\ dirs' = r.dirs
               /\ IF r.ok THEN pc' = "t_dump" /\ error' = error
                          ELSE Raise(Err("FileExistsError", "makedirs", -1, "os.makedirs"))
       ELSE /\ dirs' = dirs
            /\ pc' = "t_dump"
            /\ error' = error
  /\ UNCHANGED <<files, datafiles, cwd, caller, result, display,
                 path_to_model_folder, path_to_model, target_names,
                 path_to_model_folder_yaml_list, path_to_config, config,
                 test_split, model, y_test_probas_pred, train>>

\* line 52: f'{directory}/{filename}.joblib'
DumpPath == [dir |-> <<"saved_models">>, base |-> "log_reg_tf_idf", ext |-> "joblib"]

\* lines 52-53
Dump ==
  /\ pc = "t_dump"
  /\ calls' = Append(calls, "dump")
  /\ train' = [train EXCEPT !.path = DumpPath]
  /\ IF dirs[SavedModels(cwd)] = "dir"
       THEN /\ files' = [files EXCEPT ![Resolve(cwd, DumpPath)] =
                           Present(Serialize(train.clf))]
            /\ error' = error
       ELSE /\ files' = files
            /\ error' = Err("NotADirectoryError", "dump", -1, "dump")
  /\ pc' = "done"
  /\ UNCHANGED <<dirs, datafiles, cwd, caller, result, display,
                 path_to_model_folder, path_to_model, target_names,
                 path_to_model_folder_yaml_list, path_to_config, config,
                 test_split, model, y_test_probas_pred>>

NextTrain ==
  \/ RunBaseline
  \/ ReadTrainCsv
  \/ ReadTestCsv
  \/ SelectColumns
  \/ LabelEncoderFit
  \/ LabelEncoderTransform
  \/ VectorizerFit
  \/ VectorizerTransform
  \/ ClassifierFit
  \/ Report
  \/ CreateDirectory
  \/ Dump


\* ------------------------------------------------------ initial states
\* what a directory holds: its target_names.json, whether model.joblib and
\* log_reg_tf_idf.joblib are there, and the base names of its *.yaml files
Layout(tn, hasModel, hasDump, yamls) ==
  [tn |-> tn, model |-> hasModel, dump |-> hasDump, yamls |-> yamls]
EmptyLayout == Layout(Absent, FALSE, FALSE, {})
BinaryNames == Present(SubSeq(LabelOrder, 1, 2))

FileOf(p, L) ==
  IF p.ext = "json" THEN L.tn
  ELSE IF p.ext = "yaml"
    THEN IF p.base \in L.yamls THEN Present(YamlDoc(p)) ELSE Absent
  ELSE IF p.base = "model"
    THEN IF L.model THEN Present(Serialize(StoredModel)) ELSE Absent
  ELSE IF L.dump THEN Present(Serialize(StoredModel)) ELSE Absent

\* the filesystem holding layout LW in W, LM in M and LS in <wd>/saved_models
MkFiles(wd, LW, LM, LS) ==
  [p \in AllFiles |->
     FileOf(p, IF p.dir = W THEN LW
               ELSE IF p.dir = M THEN LM
               ELSE IF p.dir = SavedModels(wd) THEN LS
               ELSE EmptyLayout)]

\* <cwd>/saved_models: nothing there, a regular file of that name, an empty
\* directory, or a directory that already holds artifacts
SavedKinds == {"absent", "file", "empty", "populated"}
SavedLayout(k) ==
  IF k = "populated" THEN Layout(BinaryNames, TRUE, TRUE, {}) ELSE EmptyLayout
MkDirs(wd, k) ==
  [d \in {SavedModels(x) : x \in CwdSet} |->
     IF d # SavedModels(wd) THEN "absent"
     ELSE IF k \in {"empty", "populated"} THEN "dir" ELSE k]

TargetNameFiles == {Absent} \cup {Present(l) : l \in ClassLists}
CsvFiles(n) == {Absent} \cup {Present(r) : r \in RowsUpTo(n, RowSet)}

InitControl ==
  /\ pc = "idle"
  /\ caller = "none"
  /\ calls = <<>>
  /\ error = NoError
  /\ result = NoResult
  /\ display = NoDisplay
  /\ path_to_model_folder = <<>>
  /\ path_to_model = NoPath
  /\ target_names = <<>>
  /\ path_to_model_folder_yaml_list = <<>>
  /\ path_to_config = NoPath
  /\ config = NoConfig
  /\ test_split = NoSplit
  /\ model = NoModel
  /\ y_test_probas_pred = NoProbas
  /\ train = NoTrain

\* diagnostics: any content of the model directory M, any *.yaml files in W
InitDiag ==
  /\ InitControl
  /\ cwd \in CwdSet
  /\ \E tn \in TargetNameFiles, hasModel \in BOOLEAN,
        ym \in SUBSET YamlBases, yw \in SUBSET YamlBases :
       files = MkFiles(cwd, Layout(Absent, FALSE, FALSE, yw),
                       Layout(tn, hasModel, FALSE, ym), EmptyLayout)
  /\ dirs = MkDirs(cwd, "absent")
  /\ datafiles = [train |-> Absent, test |-> Absent]

\* training: any data files, any state of <cwd>/saved_models; the script
\* never looks at where it runs, so one working directory stands for all
InitTrain ==
  /\ InitControl
  /\ cwd = W
  /\ \E k \in SavedKinds :
       /\ files = MkFiles(cwd, EmptyLayout, EmptyLayout, SavedLayout(k))
       /\ dirs = MkDirs(cwd, k)
  /\ \E tr \in CsvFiles(MaxRows), te \in CsvFiles(MaxTestRows) :
       datafiles = [train |-> tr, test |-> te]

\* both flows on one filesystem: a valid model directory M, one *.yaml file or
\* none in W, any state of <cwd>/saved_models, one-row data files
Init ==
  /\ InitControl
  /\ cwd \in CwdSet
  /\ \E k \in SavedKinds, yw \in {{}, {YamlOrder[1]}} :
       /\ files = MkFiles(cwd, Layout(Absent, FALSE, FALSE, yw),
                          Layout(BinaryNames, TRUE, FALSE, {YamlOrder[1]}),
                          [SavedLayout(k) EXCEPT !.yamls =
                             IF k = "populated" THEN {YamlOrder[1]} ELSE {}])
       /\ dirs = MkDirs(cwd, k)
  /\ \E tr \in CsvFiles(1), te \in CsvFiles(1) :
       datafiles = [train |-> tr, test |-> te]

Next ==
  \/ Call_get_model_and_data
  \/ Call_get_precision_recall_curve
  \/ Call_get_roc_curve
  \/ ModelPath
  \/ ReadTargetNames
  \/ CheckClassCount
  \/ GlobYaml
  \/ CheckConfigCount
  \/ ConfigPath
  \/ GetConfig
  \/ LoadData
  \/ JoblibLoad
  \/ ReturnTriple
  \/ PredictProba
  \/ Curve
  \/ Plot
  \/ RunBaseline
  \/ ReadTrainCsv
  \/ ReadTestCsv
  \/ SelectColumns
  \/ LabelEncoderFit
  \/ LabelEncoderTransform
  \/ VectorizerFit
  \/ VectorizerTransform
  \/ ClassifierFit
  \/ Report
  \/ CreateDirectory
  \/ Dump

SpecDiag  == InitDiag /\ [][NextDiag]_vars
SpecTrain == InitTrain /\ [][NextTrain]_vars
Spec      == Init /\ [][Next]_vars


\* ---------------------------------------------------------------- claims
DiagEntries == {"_get_model_and_data", "get_precision_recall_curve", "get_roc_curve"}
Called(name) == \E i \in 1..Len(calls) : calls[i] = name
IsPrefix(a, b) == Len(a) <= Len(b) /\ SubSeq(b, 1, Len(a)) = a
InDiag == caller \in DiagEntries

\* the files of the model folder the running call was given, as the OS sees them
TargetNamesFile ==
  Lookup(Resolve(cwd, [dir |-> path_to_model_folder, base |-> "target_names", ext |-> "json"]))
ModelFile ==
  Lookup(Resolve(cwd, [dir |-> path_to_model_folder, base |-> "model", ext |-> "joblib"]))
\* number of *.yaml files in the working directory
YamlCount ==
  Cardinality({b \in YamlBases : files[[dir |-> cwd, base |-> b, ext |-> "yaml"]].exists})

ResolverOrder == <<"open", "len_check", "glob", "get_config", "load_data", "joblib.load">>
DiagOrder == ResolverOrder \o <<"predict_proba", "curve">>

\* C1: a class list whose length is not 2 makes the call fail with the
\* binary-classification error carrying that length, and glob, get_config,
\* load_data and joblib.load are never performed in that call, whatever the
\* number of *.yaml files.
C1_NonBinaryFailsEarly ==
  (InDiag /\ TargetNamesFile.exists /\ Len(TargetNamesFile.data) # 2) =>
     /\ ~Called("glob") /\ ~Called("get_config")
     /\ ~Called("load_data") /\ ~Called("joblib.load")
     /\ pc = "done" =>
          /\ error = Err("Exception", "not_binary", Len(TargetNamesFile.data), "len_check")
          /\ calls = <<"open", "len_check">>
          /\ result = NoResult

C1_Witness ==
  /\ pc = "done" /\ InDiag
  /\ TargetNamesFile.exists /\ Len(TargetNamesFile.data) = 3
  /\ YamlCount = 1
  /\ error.msg = "not_binary" /\ error.count = 3

\* C2: with a 2-element class list the configuration search is decided by
\* the number n of *.yaml files alone: n = 0 is the missing-configuration
\* error, n >= 2 the ambiguous-configuration error, and get_config is called
\* exactly when n = 1; the failing cases call none of get_config, load_data,
\* joblib.load.
C2_ConfigCountDecides ==
  (InDiag /\ TargetNamesFile.exists /\ Len(TargetNamesFile.data) = 2) =>
     /\ Called("get_config") => YamlCount = 1
     /\ pc = "done" =>
          /\ YamlCount = 0 =>
               /\ error = Err("FileNotFoundError", "no_config", -1, "glob")
               /\ calls = <<"open", "len_check", "glob">>
          /\ YamlCount >= 2 =>
               /\ error = Err("FileNotFoundError", "many_configs", -1, "glob")
               /\ calls = <<"open", "len_check", "glob">>
          /\ YamlCount = 1 =>
               /\ Called("get_config")
               /\ error.msg \notin {"no_config", "many_configs"}

C2_Witness ==
  /\ pc = "done" /\ InDiag
  /\ TargetNamesFile.exists /\ Len(TargetNamesFile.data) = 2
  /\ YamlCount >= 2
  /\ error.msg = "many_configs"

\* C3: when the search matched exactly one file, the path handed to
\* get_config denotes that very file.
C3_ConfigIsMatchedFile ==
  (InDiag /\ Called("get_config")) =>
     Resolve(cwd, path_to_config) = Resolve(cwd, path_to_model_folder_yaml_list[1])

\* C4: the steps of a call occur in the fixed order open -> class-count check
\* -> glob -> get_config -> load_data -> joblib.load -> return; load_data and
\* joblib.load come only after both checks passed, joblib.load only after
\* load_data returned.
C4_FixedOrder ==
  InDiag =>
     /\ IsPrefix(calls, DiagOrder)
     /\ Called("load_data") =>
          /\ TargetNamesFile.exists /\ Len(TargetNamesFile.data) = 2
          /\ YamlCount = 1
     /\ Called("joblib.load") => test_split # NoSplit
     /\ result.kind = "triple" => calls = ResolverOrder

C4_Witness ==
  /\ pc = "done" /\ caller = "_get_model_and_data"
  /\ result.kind = "triple"
  /\ calls = ResolverOrder

\* the structural error the class count and the number of *.yaml files select
StructuralOutcome ==
  IF Len(TargetNamesFile.data) # 2 THEN "not_binary"
  ELSE IF YamlCount = 0 THEN "no_config"
  ELSE IF YamlCount > 1 THEN "many_configs"
  ELSE "none"

C6_FailureIsTerminal ==
  (InDiag /\ error # NoError) =>
     /\ pc = "done"
     /\ Len(calls) > 0 /\ calls[Len(calls)] = error.at
     /\ \A i, j \in 1..Len(calls) : calls[i] = calls[j] => i = j
     /\ result = NoResult
     /\ display = NoDisplay
     /\ error.at # "curve" =>
          /\ ~Called("predict_proba") /\ ~Called("curve")
          /\ y_test_probas_pred = NoProbas

C6_Witness ==
  /\ pc = "done" /\ caller = "get_roc_curve"
  /\ error.at = "load_data"
  /\ calls = <<"open", "len_check", "glob", "get_config", "load_data">>

\* a run of baseline.py has completed and its artifact is on disk
Trained ==
  /\ train.path = DumpPath
  /\ train.clf.fitted
  /\ files[Resolve(cwd, DumpPath)] = Present(Serialize(train.clf))

\* C7: after the training flow has written its artifact, the resolver run on
\* the artifacts directory reads that artifact and returns the classifier
\* that was just trained.
C7_RoundTrip ==
  (Trained /\ caller = "_get_model_and_data" /\ pc = "done"
     /\ path_to_model_folder = <<"saved_models">> /\ error.at # "load_data") =>
     /\ Resolve(cwd, path_to_model) = Resolve(cwd, train.path)
     /\ result.kind = "triple"
     /\ result.model = train.clf

\* C8: the directory-creation step never fails, leaves no file changed,
\* leaves the directory existing when the path was absent or a directory,
\* and changes nothing when the directory already exists, however many times
\* the flow is run.
C8_CreateDirectoryIdempotent ==
  [][pc = "t_mkdir" =>
       /\ pc' = "t_dump" /\ error' = NoError
       /\ files' = files
       /\ dirs[SavedModels(cwd)] # "file" => dirs'[SavedModels(cwd)] = "dir"
       /\ dirs[SavedModels(cwd)] = "dir" => dirs' = dirs]_vars

\* the step has run on a directory that an earlier run of the flow filled
C8_Witness ==
  /\ pc = "t_dump"
  /\ dirs[SavedModels(cwd)] = "dir"
  /\ files[Resolve(cwd, DumpPath)].exists
  /\ files[Resolve(cwd, DumpPath)].data # Serialize(StoredModel)
  /\ error = NoError

\* C9: no step of the diagnostics flow changes the filesystem; every call
\* starts with fresh locals and a returned triple is the one the files of
\* the call's folder hold, read in that call.
C9_ReadOnlyNoCache ==
  /\ [][files' = files /\ dirs' = dirs /\ datafiles' = datafiles]_vars
  /\ [](InDiag =>
          /\ pc = "r_model_path" =>
               /\ calls = <<>> /\ model = NoModel /\ test_split = NoSplit
               /\ config = NoConfig /\ target_names = <<>> /\ result = NoResult
          /\ result.kind = "triple" =>
               /\ calls = ResolverOrder
               /\ ModelFile.exists /\ result.model = Deserialize(ModelFile.data)
               /\ TargetNamesFile.exists
               /\ result.split = load_data(ParseYaml(Lookup(Resolve(cwd, path_to_config)).data)))

C9_Witness ==
  /\ pc = "done" /\ caller = "get_precision_recall_curve"
  /\ result.kind = "pr"
  /\ display.kind = "PrecisionRecallDisplay"

TrainOrder ==
  <<"read_csv", "read_csv", "le.fit_transform", "le.transform",
    "vectorizer.fit_transform", "vectorizer.transform", "clf.fit",
    "classification_report", "os.makedirs", "dump">>
TrainLabels == Column(datafiles.train.data, "Class")
TrainTexts  == Column(datafiles.train.data, "Text")
TestLabels  == Column(datafiles.test.data, "Class")

\* C10: encoder and vectorizer are each fitted once, on the training split
\* only, before any use on the test split; the classifier is fitted on the
\* vectorized training split; a test label absent from the training labels
\* makes the flow fail at the encoder transform, before the classifier is
\* fitted, the report printed or anything written.
C10_FitOnTrainOnly ==
  caller = "baseline" =>
     /\ IsPrefix(calls, TrainOrder)
     /\ Called("le.fit_transform") => train.le = le_fit(TrainLabels)
     /\ Called("vectorizer.fit_transform") => train.vectorizer = vec_fit(TrainTexts)
     /\ Called("clf.fit") =>
          train.clf = clf_fit(vec_transform(vec_fit(TrainTexts), TrainTexts),
                              le_transform(le_fit(TrainLabels), TrainLabels))
     /\ (Called("le.transform") /\ ~(Range(TestLabels) \subseteq Range(TrainLabels))) =>
          /\ pc = "done"
          /\ error = Err("ValueError", "unseen_label", -1, "le.transform")
          /\ calls = SubSeq(TrainOrder, 1, 4)
          /\ train.clf = NoModel /\ train.stdout = <<>> /\ train.path = NoPath

C10_Witness ==
  /\ pc = "done" /\ caller = "baseline"
  /\ error.msg = "unseen_label"
  /\ ~(Range(TestLabels) \subseteq Range(TrainLabels))

====
